---- MODULE Spec2Model ----
(***************************************************************************)
(* The patch functions of add_debug_final.py: add_logs_to_game_js,         *)
(* add_logs_to_view_js and add_logs_to_interaction_js.                     *)
(*                                                                         *)
(* A text (a Python str) is a sequence of tokens.  A token is a blank      *)
(* (SP), a line break (NL) or one of the literal fragments the script      *)
(* searches for or inserts; every pattern of the script is a sequence of   *)
(* such tokens, so "p in s" is contiguous-subsequence containment.         *)
(* Python list indices are kept 0-based, as in the source.  A file's        *)
(* content is the str that f.read() returns and f.write() takes.           *)
(*                                                                         *)
(* A behaviour is a sequence of calls of one patch function on its file;   *)
(* the three functions work on three different files and share no state.   *)
(***************************************************************************)
EXTENDS Integers, Sequences, FiniteSets, TLC

\* ------------------------------------------------------------ bounds
\* Longest input file, in lines.
MaxLines == 3
\* Number of successive calls of the patch function on the same file.
MaxRuns == 2

\* ------------------------------------------------------------ text
SP == " "
NL == "\n"

IsSpace(t) == t \in {SP, NL}

Spaces(n) == [k \in 1..n |-> SP]

\* Python: p in s
Contains(s, p) ==
    \E k \in 0..(Len(s) - Len(p)) : SubSeq(s, k + 1, k + Len(p)) = p

\* Python: s.split('\n')
RECURSIVE Split(_)
Split(s) ==
    IF \A k \in 1..Len(s) : s[k] # NL
    THEN <<s>>
    ELSE LET k == CHOOSE j \in 1..Len(s) :
                      s[j] = NL /\ \A m \in 1..(j - 1) : s[m] # NL
         IN  <<SubSeq(s, 1, k - 1)>> \o Split(SubSeq(s, k + 1, Len(s)))

\* Python: '\n'.join(ls)
RECURSIVE Join(_)
Join(ls) ==
    IF Len(ls) = 0 THEN <<>>
    ELSE IF Len(ls) = 1 THEN ls[1]
    ELSE ls[1] \o <<NL>> \o Join(Tail(ls))

\* The leading whitespace of a line.
RECURSIVE Indent(_)
Indent(s) ==
    IF Len(s) > 0 /\ IsSpace(s[1]) THEN <<s[1]>> \o Indent(Tail(s)) ELSE <<>>

RECURSIVE RStrip(_)
RStrip(s) ==
    IF Len(s) > 0 /\ IsSpace(s[Len(s)]) THEN RStrip(SubSeq(s, 1, Len(s) - 1)) ELSE s

\* Python: s.strip()
Strip(s) ==
    LET r == RStrip(s) IN SubSeq(r, Len(Indent(r)) + 1, Len(r))

\* Python: ls[k] for an index the list accepts (a negative k counts from the end).
PyIndex(ls, k) == IF k >= 0 THEN ls[k + 1] ELSE ls[Len(ls) + k + 1]

\* Python: ls[k] raises IndexError.
IndexError(ls, k) == k >= Len(ls) \/ k < 0 - Len(ls)

\* Python: ls.append(x)
PyAppend(ls, x) == Append(ls, x)

\* Variant of PyInsert: ls.insert(-1, x) taken to add x at the end of the list.
PyInsertAtEnd(ls, k, x) == Append(ls, x)

\* Variant of PyInsert: the element at the place is overwritten, not shifted.
PyInsertOverwrite(ls, k, x) ==
    LET j == IF k >= 0 THEN k ELSE Len(ls) + k
        p == IF j < 0 THEN 0 ELSE IF j > Len(ls) THEN Len(ls) ELSE j
    IN  SubSeq(ls, 1, p) \o <<x>> \o SubSeq(ls, p + 2, Len(ls))

\* Python: ls.insert(k, x): a negative k counts from the end, and the place
\* is clamped to the list.
PyInsert(ls, k, x) ==
    LET j == IF k >= 0 THEN k ELSE Len(ls) + k
        p == IF j < 0 THEN 0 ELSE IF j > Len(ls) THEN Len(ls) ELSE j
    IN  SubSeq(ls, 1, p) \o <<x>> \o SubSeq(ls, p + 1, Len(ls))

\* ls.append(x) for each x of xs, in order.
RECURSIVE AppendAll(_, _)
AppendAll(ls, xs) ==
    IF Len(xs) = 0 THEN ls ELSE AppendAll(PyAppend(ls, Head(xs)), Tail(xs))

\* ls.insert(-1, x) for each x of xs, in order.
RECURSIVE InsertAll(_, _)
InsertAll(ls, xs) ==
    IF Len(xs) = 0 THEN ls ELSE InsertAll(PyInsert(ls, -1, Head(xs)), Tail(xs))

\* ------------------------------------------------------------ game.js rules
\* Anchors and contexts (the comments of game.js are Japanese in the source;
\* each is one token here, named by what it says).
GAME_MARKER == "DEBUG: Click event occurred"
COMMENT == "// "
ANCHOR_DATASET == "const { owner, zone, cardId, index } = dataset;"
CTX_HANDLER == "async _handleCardClick"
ANCHOR_PROCESSING == "if (this.state.isProcessing) {"
CTX_PROCESSING == "ignore clicks while processing"
ANCHOR_PLAYER_TURN == "if (this.state.turnPlayer === 'player' && owner === 'cpu') {"
CTX_PLAYER_TURN == "check turn player and owner"
ANCHOR_INFO == "if (zone === 'active' || zone === 'bench') {"
CTX_INFO == "CPU cards allow info display only"
ANCHOR_CPU_TURN == "if (this.state.turnPlayer === 'cpu' && owner === 'player') {"
ANCHOR_PHASES == "// Handle different phases"
CTX_SWITCH == "switch"

\* The condition of branch r (1..6, in the order of the if/elif chain) at
\* line i, with Python's left-to-right short-circuit evaluation of "and".
\* st is line.strip(), which the chain computes anew in each branch and
\* which is the same value each time.
GameCond(r, lines, i, st) ==
    LET line == PyIndex(lines, i) IN
    CASE r = 1 -> Contains(line, <<ANCHOR_DATASET>>)
                  /\ Contains(PyIndex(lines, i - 1), <<CTX_HANDLER>>)
      [] r = 2 -> st = <<ANCHOR_PROCESSING>> /\ i > 0
                  /\ Contains(PyIndex(lines, i - 1), <<CTX_PROCESSING>>)
      [] r = 3 -> st = <<ANCHOR_PLAYER_TURN>> /\ i > 0
                  /\ Contains(PyIndex(lines, i - 1), <<CTX_PLAYER_TURN>>)
      [] r = 4 -> st = <<ANCHOR_INFO>>
                  /\ Contains(PyIndex(lines, i - 1), <<CTX_INFO>>)
      [] r = 5 -> st = <<ANCHOR_CPU_TURN>>
      [] r = 6 -> st = <<ANCHOR_PHASES>>
                  /\ Contains(PyIndex(lines, i + 1), <<CTX_SWITCH>>)

\* The neighbour indices (as written: i-1, i+1) that evaluating branch r's
\* condition at line i subscripts lines with.
GameReads(r, lines, i, st) ==
    LET line == PyIndex(lines, i) IN
    CASE r = 1 -> IF Contains(line, <<ANCHOR_DATASET>>) THEN {i - 1} ELSE {}
      [] r = 2 -> IF st = <<ANCHOR_PROCESSING>> /\ i > 0 THEN {i - 1} ELSE {}
      [] r = 3 -> IF st = <<ANCHOR_PLAYER_TURN>> /\ i > 0 THEN {i - 1} ELSE {}
      [] r = 4 -> IF st = <<ANCHOR_INFO>> THEN {i - 1} ELSE {}
      [] r = 5 -> {}
      [] r = 6 -> IF st = <<ANCHOR_PHASES>> THEN {i + 1} ELSE {}

\* What branch r adds to new_lines, line by line.
GameInsert(r) ==
    CASE r = 1 -> << <<>>,
                     Spaces(8) \o <<COMMENT, GAME_MARKER>>,
                     Spaces(8) \o <<"console.log('Card Click:', {">>,
                     Spaces(12) \o <<"owner,">>,
                     Spaces(12) \o <<"zone,">>,
                     Spaces(12) \o <<"cardId,">>,
                     Spaces(12) \o <<"index,">>,
                     Spaces(12) \o <<"currentPhase: this.state.phase,">>,
                     Spaces(12) \o <<"turnPlayer: this.state.turnPlayer,">>,
                     Spaces(12) \o <<"isProcessing: this.state.isProcessing">>,
                     Spaces(8) \o <<"});">> >>
      [] r = 2 -> << Spaces(12) \o <<"console.log('BLOCKED: isProcessing = true');">> >>
      [] r = 3 -> << Spaces(12) \o
                     <<"console.log('BLOCKED: Player turn, CPU card clicked', { zone });">> >>
      [] r = 4 -> << Spaces(16) \o
                     <<"console.log('INFO: Info display allowed for CPU active/bench');">> >>
      [] r = 5 -> << Spaces(12) \o
                     <<"console.log('BLOCKED: CPU turn, Player card clicked');">> >>
      [] r = 6 -> << <<>>,
                     Spaces(8) \o <<"console.log('ALLOWED: Click allowed, processing...');">> >>

\* How branch r adds the items xs to the list ls: branch 6 puts them before
\* the line just appended (new_lines.insert(-1, ..)), every other branch
\* appends them after it.
GameEmit(r, ls, xs) ==
    IF r = 6 THEN InsertAll(ls, xs) ELSE AppendAll(ls, xs)

\* Python: 'DEBUG: Click event occurred' in content
\*         or '// DEBUG: Click event occurred' in content
GameAlreadyModified(text) ==
    Contains(text, <<GAME_MARKER>>) \/ Contains(text, <<COMMENT, GAME_MARKER>>)

\* ------------------------------------------------------------ interaction.js rules
INTERACTION_MARKER == "THREE.JS MOUSE DOWN:"
ANCHOR_PARENT == "const object = this._findInteractiveParent(firstHit.object);"
ANCHOR_DRAG == "if (this.gameState && this.gameState.turnPlayer !== 'player') {"
CTX_DRAG == "no dragging during the CPU turn"

\* The condition of branch r (1..2) at line i.
InteractionCond(r, lines, i) ==
    LET line == PyIndex(lines, i) IN
    CASE r = 1 -> Contains(line, <<ANCHOR_PARENT>>)
      [] r = 2 -> Contains(line, <<ANCHOR_DRAG>>)
                  /\ Contains(PyIndex(lines, i - 1), <<CTX_DRAG>>)

InteractionReads(r, lines, i) ==
    LET line == PyIndex(lines, i) IN
    CASE r = 1 -> {}
      [] r = 2 -> IF Contains(line, <<ANCHOR_DRAG>>) THEN {i - 1} ELSE {}

InteractionInsert(r) ==
    CASE r = 1 -> << <<>>,
                     Spaces(12) \o <<"console.log('", INTERACTION_MARKER, "', {">>,
                     Spaces(16) \o <<"objectType: object?.userData?.type,">>,
                     Spaces(16) \o <<"owner: object?.userData?.owner,">>,
                     Spaces(16) \o <<"isDraggable: object?.userData?.isDraggable,">>,
                     Spaces(16) \o <<"currentPlayer: this.gameState?.turnPlayer">>,
                     Spaces(12) \o <<"});">> >>
      [] r = 2 -> << Spaces(20) \o <<"console.log('DRAG BLOCKED: Wrong turn', ...);">> >>

InteractionEmit(r, ls, xs) == AppendAll(ls, xs)

\* Python: 'THREE.JS MOUSE DOWN:' in content
InteractionAlreadyModified(text) == Contains(text, <<INTERACTION_MARKER>>)

\* ------------------------------------------------------------ the two line scans
Scans == {"game", "interaction"}

\* The number of branches of the if/elif chain.
NRules(f) == IF f = "game" THEN 6 ELSE 2

Cond(f, r, lines, i, st) ==
    IF f = "game" THEN GameCond(r, lines, i, st) ELSE InteractionCond(r, lines, i)

Reads(f, r, lines, i, st) ==
    IF f = "game" THEN GameReads(r, lines, i, st) ELSE InteractionReads(r, lines, i)

Emit(f, r, ls, xs) ==
    IF f = "game" THEN GameEmit(r, ls, xs) ELSE InteractionEmit(r, ls, xs)

\* Variant of Insert: every added line starts one blank short.
InsertDedented(f, r) ==
    LET xs == IF f = "game" THEN GameInsert(r) ELSE InteractionInsert(r)
    IN  [k \in 1..Len(xs) |-> IF Len(xs[k]) > 0 THEN Tail(xs[k]) ELSE xs[k]]

Insert(f, r) == IF f = "game" THEN GameInsert(r) ELSE InteractionInsert(r)

\* One evaluation of the if/elif chain at line i, from branch r on: the
\* branch taken (0: none, -1: a subscript raised IndexError) and every
\* neighbour index the evaluation subscripted lines with.
RECURSIVE Chain(_, _, _, _, _, _)
Chain(f, r, lines, i, st, seen) ==
    IF r > NRules(f) THEN [branch |-> 0, reads |-> seen]
    ELSE LET rd == Reads(f, r, lines, i, st) IN
         IF \E k \in rd : IndexError(lines, k)
         THEN [branch |-> -1, reads |-> seen \cup rd]
         ELSE IF Cond(f, r, lines, i, st)
         THEN [branch |-> r, reads |-> seen \cup rd]
         ELSE Chain(f, r + 1, lines, i, st, seen \cup rd)

Branch(f, lines, i) == Chain(f, 1, lines, i, Strip(PyIndex(lines, i)), {}).branch

NeighbourReads(f, lines, i) ==
    Chain(f, 1, lines, i, Strip(PyIndex(lines, i)), {}).reads

\* Variant of AlreadyModified: the scan functions without their guard (as in
\* add_debug_logs_simple.py).
NoGuard(f, text) == FALSE

AlreadyModified(f, text) ==
    IF f = "game" THEN GameAlreadyModified(text) ELSE InteractionAlreadyModified(text)

\* ------------------------------------------------------------ view.js
VIEW_MARKER == "SLOT CLICKED (view.js):"
VIEW_SLOT == "const cardInSlot = slotElement.querySelector('[data-card-id]');"
VIEW_CARDID == "const cardId = cardInSlot ? (..runtimeId || ..cardId) : null;"

\* Python: 'SLOT CLICKED (view.js):' in content
ViewAlreadyModified(text) == Contains(text, <<VIEW_MARKER>>)

\* The pattern (VIEW_SLOT \s+ VIEW_CARDID) matched at position p of the text:
\* the position of the match's last token, or 0 if there is no match at p.
ViewMatchEnd(text, p) ==
    IF text[p] = VIEW_SLOT
       /\ \E q \in (p + 2)..Len(text) :
             text[q] = VIEW_CARDID /\ \A m \in (p + 1)..(q - 1) : IsSpace(text[m])
    THEN CHOOSE q \in (p + 2)..Len(text) :
             text[q] = VIEW_CARDID /\ \A m \in (p + 1)..(q - 1) : IsSpace(text[m])
    ELSE 0

\* The replacement template after its \1.
ViewReplacement ==
    <<NL, NL>> \o Spaces(12) \o <<"console.log('", VIEW_MARKER, "', {", NL>>
    \o Spaces(16) \o <<"owner,", NL>>
    \o Spaces(16) \o <<"zone,", NL>>
    \o Spaces(16) \o <<"index,", NL>>
    \o Spaces(16) \o <<"hasCard: !!cardId,", NL>>
    \o Spaces(16) \o <<"cardId", NL>>
    \o Spaces(12) \o <<"});">>

\* The positions where the pattern matches.
ViewMatches(text) == {p \in 1..Len(text) : ViewMatchEnd(text, p) # 0}

\* Python: re.sub(pattern, replacement, content, count=1)
ViewSub(text) ==
    IF ViewMatches(text) = {} THEN text
    ELSE LET p == CHOOSE m \in ViewMatches(text) : \A n \in ViewMatches(text) : m <= n
             q == ViewMatchEnd(text, p)
         IN  SubSeq(text, 1, q) \o ViewReplacement \o SubSeq(text, q + 1, Len(text))

\* ------------------------------------------------------------ input files
\* The lines the input files are made of: the lines of the target files the
\* rules speak of, most at the target's indentation and some at another one,
\* a line that carries the marker, and the empty line.  Branch 3 of game.js
\* has the shape of branch 2 (a stripped-line test, i > 0, a context in the
\* line before), and its two lines are left out of the inputs.
GameLines ==
    { Spaces(4) \o <<CTX_HANDLER, "(dataset) {">>,
      Spaces(8) \o <<ANCHOR_DATASET>>,
      Spaces(8) \o <<COMMENT, CTX_PROCESSING>>,
      Spaces(8) \o <<ANCHOR_PROCESSING>>,
      Spaces(12) \o <<COMMENT, CTX_INFO>>,
      Spaces(12) \o <<ANCHOR_INFO>>,
      <<SP, ANCHOR_CPU_TURN, SP>>,
      Spaces(8) \o <<ANCHOR_PHASES>>,
      Spaces(8) \o <<CTX_SWITCH, " (this.state.phase) {">>,
      Spaces(8) \o <<COMMENT, GAME_MARKER>>,
      <<>> }

ViewLines ==
    { Spaces(12) \o <<VIEW_SLOT>>,
      Spaces(12) \o <<VIEW_CARDID>>,
      <<VIEW_SLOT, SP, VIEW_CARDID>>,
      Spaces(12) \o <<"console.log('", VIEW_MARKER, "', {">>,
      Spaces(12) \o <<"return;">>,
      <<>> }

InteractionLines ==
    { Spaces(12) \o <<ANCHOR_PARENT>>,
      Spaces(16) \o <<COMMENT, CTX_DRAG>>,
      Spaces(16) \o <<ANCHOR_DRAG>>,
      <<ANCHOR_DRAG, SP, "return;">>,
      Spaces(12) \o <<"console.log('", INTERACTION_MARKER, "', {">>,
      <<>> }

Functions == {"game", "view", "interaction"}

LineSet(f) ==
    IF f = "game" THEN GameLines
    ELSE IF f = "view" THEN ViewLines
    ELSE InteractionLines

\* The contents a file may have: 1..MaxLines lines joined by line breaks.
Inputs(f) ==
    { Join(ls) : ls \in UNION { [1..n -> LineSet(f)] : n \in 1..MaxLines } }

\* ------------------------------------------------------------ state
VARIABLES
    fn,         \* the patch function called on the file (fixed in a behaviour)
    file,       \* the content of the function's file on disk
    pc,         \* "idle": between calls; "scan": inside the while loop
    content,    \* local: the text read, later the text written
    lines,      \* local: content.split('\n')
    new_lines,  \* local: the output lines
    i,          \* local: the loop index (0-based)
    mark,       \* observation: for each element of new_lines, <<r, a>>:
                \* r = 0 for the input line lines[a], r > 0 for a line added
                \* by branch r for the anchor line lines[a]
    applied,    \* observation: insertions made in the current call
    log         \* observation: one record per finished call: what it
                \* printed, its insertions, whether it wrote, the file
                \* before and after

vars == <<fn, file, pc, content, lines, new_lines, i, mark, applied, log>>

Init ==
    /\ fn \in Functions
    /\ file \in Inputs(fn)
    /\ pc = "idle"
    /\ content = <<>>
    /\ lines = <<>>
    /\ new_lines = <<>>
    /\ i = 0
    /\ mark = <<>>
    /\ applied = 0
    /\ log = <<>>

Entry(status, n, wrote, before, after) ==
    [status |-> status, applied |-> n, wrote |-> wrote,
     before |-> before, after |-> after]

\* ------------------------------------------------------------ the line scans
\* Read the file and test the guard; on a hit print [SKIP] and return, else
\* split the text and enter the loop.
ScanOpen(f) ==
    /\ fn = f
    /\ pc = "idle"
    /\ Len(log) < MaxRuns
    /\ content' = file
    /\ IF AlreadyModified(f, file)
       THEN /\ log' = Append(log, Entry("SKIP", 0, FALSE, file, file))
            /\ UNCHANGED <<pc, lines, new_lines, i, mark, applied>>
       ELSE /\ lines' = Split(file)
            /\ new_lines' = <<>>
            /\ i' = 0
            /\ mark' = <<>>
            /\ applied' = 0
            /\ pc' = "scan"
            /\ UNCHANGED log
    /\ UNCHANGED <<fn, file>>

\* One iteration of the while loop.  An IndexError leaves the function (and
\* the script) before anything is written or printed.
ScanStep(f) ==
    /\ fn = f
    /\ pc = "scan"
    /\ i < Len(lines)
    /\ LET line == PyIndex(lines, i)
           b == Branch(f, lines, i)
           appended == PyAppend(new_lines, line)
           marked == PyAppend(mark, <<0, i>>)
       IN  IF b = -1
           THEN /\ new_lines' = appended
                /\ mark' = marked
                /\ pc' = "idle"
                /\ log' = Append(log, Entry("IndexError", applied, FALSE, file, file))
                /\ UNCHANGED <<i, applied>>
           ELSE IF b = 0
           THEN /\ new_lines' = appended
                /\ mark' = marked
                /\ i' = i + 1
                /\ UNCHANGED <<pc, log, applied>>
           ELSE /\ new_lines' = Emit(f, b, appended, Insert(f, b))
                /\ mark' = Emit(f, b, marked, [k \in 1..Len(Insert(f, b)) |-> <<b, i>>])
                /\ i' = i + 1
                /\ applied' = applied + 1
                /\ UNCHANGED <<pc, log>>
    /\ UNCHANGED <<fn, file, content, lines>>

\* After the loop: join, write the file, print [OK].
ScanFinish(f) ==
    /\ fn = f
    /\ pc = "scan"
    /\ i = Len(lines)
    /\ content' = Join(new_lines)
    /\ file' = content'
    /\ log' = Append(log, Entry("OK", applied, TRUE, file, file'))
    /\ pc' = "idle"
    /\ UNCHANGED <<fn, lines, new_lines, i, mark, applied>>

GameOpen == ScanOpen("game")
GameStep == ScanStep("game")
GameFinish == ScanFinish("game")

InteractionOpen == ScanOpen("interaction")
InteractionStep == ScanStep("interaction")
InteractionFinish == ScanFinish("interaction")

\* ------------------------------------------------------------ view.js
\* The whole of add_logs_to_view_js: read, guard, substitute, write, print.
ViewRun ==
    /\ fn = "view"
    /\ pc = "idle"
    /\ Len(log) < MaxRuns
    /\ IF ViewAlreadyModified(file)
       THEN /\ content' = file
            /\ log' = Append(log, Entry("SKIP", 0, FALSE, file, file))
            /\ UNCHANGED <<file, applied>>
       ELSE /\ content' = ViewSub(file)
            /\ file' = content'
            /\ applied' = IF ViewMatches(file) = {} THEN 0 ELSE 1
            /\ log' = Append(log, Entry("OK", applied', TRUE, file, file'))
    /\ UNCHANGED <<fn, pc, lines, new_lines, i, mark>>

Next ==
    \/ GameOpen
    \/ GameStep
    \/ GameFinish
    \/ ViewRun
    \/ InteractionOpen
    \/ InteractionStep
    \/ InteractionFinish

Spec == Init /\ [][Next]_vars

\* ------------------------------------------------------------ properties
Last == log[Len(log)]

\* A call of a scan function has returned after its write, and the locals
\* are those of that call.
Written == fn \in Scans /\ pc = "idle" /\ Len(log) > 0 /\ Last.status = "OK"

\* The loop of a scan function has run to its end.
ScanComplete == fn \in Scans /\ pc = "scan" /\ i = Len(lines)

MarkerOf(f) ==
    IF f = "game" THEN GAME_MARKER
    ELSE IF f = "view" THEN VIEW_MARKER
    ELSE INTERACTION_MARKER

HasMarker(f, text) == Contains(text, <<MarkerOf(f)>>)

\* Some rule of function f would match in the text.
WouldMatch(f, text) ==
    IF f = "view" THEN ViewMatches(text) # {}
    ELSE \E a \in 0..(Len(Split(text)) - 1) : Branch(f, Split(text), a) > 0

\* The elements of new_lines that are input lines, in order.
RECURSIVE Originals(_, _)
Originals(ls, ms) ==
    IF Len(ls) = 0 THEN <<>>
    ELSE IF Head(ms)[1] = 0 THEN <<Head(ls)>> \o Originals(Tail(ls), Tail(ms))
    ELSE Originals(Tail(ls), Tail(ms))

Range(xs) == {xs[k] : k \in 1..Len(xs)}

\* C1: running a patch function twice in succession leaves the file as it
\* was after the first run, and the second run takes the SKIP branch
\* whenever the first run inserted anything.
C1_Idempotent ==
    Len(log) >= 2 =>
        /\ log[2].after = log[1].after
        /\ (log[1].status = "OK" /\ log[1].applied > 0) => log[2].status = "SKIP"

\* C2: whenever the marker is in the file at the start of a call, the call
\* never enters the scan, makes no insertion, does not write and leaves the
\* file as it was, whether or not an anchor would match.
C2_GuardAuthoritative ==
    /\ pc = "scan" => ~HasMarker(fn, file)
    /\ \A k \in 1..Len(log) :
          HasMarker(fn, log[k].before) =>
              /\ log[k].status = "SKIP"
              /\ log[k].applied = 0
              /\ ~log[k].wrote
              /\ log[k].after = log[k].before

\* A call was skipped on a file that holds the marker and in which a rule
\* would match.
C2_Witness ==
    \E k \in 1..Len(log) :
        /\ HasMarker(fn, log[k].before)
        /\ WouldMatch(fn, log[k].before)
        /\ log[k].status = "SKIP"

\* C3: a call writes the file only if it made an insertion; a call without
\* insertion does not write and leaves the file as it was.
C3_NoOpPurity ==
    \A k \in 1..Len(log) :
        log[k].applied = 0 => ~log[k].wrote /\ log[k].after = log[k].before

\* C4: at every point of a scan the output so far is the input lines
\* consumed so far, unaltered and in order, interleaved only with lines of
\* the rules; the file written is the join of the output, and without the
\* added lines it is the file read.
C4_OrderPreserved ==
    /\ (fn \in Scans /\ pc = "scan") =>
          /\ Len(mark) = Len(new_lines)
          /\ Originals(new_lines, mark) = SubSeq(lines, 1, i)
          /\ \A k \in 1..Len(mark) :
                mark[k][1] > 0 => new_lines[k] \in Range(Insert(fn, mark[k][1]))
    /\ Written =>
          /\ Last.after = Join(new_lines)
          /\ Join(Originals(new_lines, mark)) = Last.before
          /\ Originals(new_lines, mark) = lines

\* A scan has written a file with an insertion after an anchor and one
\* before an anchor (new_lines.insert(-1, ..)).
C4_Witness ==
    /\ Written
    /\ \E k \in 1..Len(mark) : mark[k][1] = 6
    /\ \E k \in 1..Len(mark) : mark[k][1] \in 1..5

RuleIndents(f, r) ==
    IF f = "game"
    THEN CASE r = 1 -> {0, 8, 12}
           [] r \in {2, 3, 5} -> {12}
           [] r = 4 -> {16}
           [] r = 6 -> {0, 8}
    ELSE CASE r = 1 -> {0, 12, 16}
           [] r = 2 -> {20}

C6_FirstMatchOnly ==
    fn \in Scans =>
        \A k1, k2 \in 1..Len(mark) :
            (mark[k1][1] > 0 /\ mark[k1][1] = mark[k2][1]) => mark[k1][2] = mark[k2][2]

\* Two insertions of a pass over the lines ls resolve to the same place: one
\* after line a and one before line a + 1.
HasConflict(f, ls) ==
    /\ f = "game"
    /\ \E a \in 0..(Len(ls) - 2) :
          Branch(f, ls, a) \in 1..5 /\ Branch(f, ls, a + 1) = 6

\* C7: a call on a file where two insertions resolve to the same place
\* reports a planning conflict and leaves the file unmodified.
C7_PlanningConflict ==
    \A k \in 1..Len(log) :
        (~HasMarker(fn, log[k].before) /\ HasConflict(fn, Split(log[k].before))) =>
            /\ log[k].status = "PlanningConflict"
            /\ log[k].after = log[k].before

\* C8: OK is reported only for a call that made an insertion, SKIP for a
\* file that holds the marker, and NO_MATCH for a file without marker in
\* which no rule matched.
C8_OutcomeReported ==
    \A k \in 1..Len(log) :
        /\ log[k].status = "OK" => log[k].applied > 0
        /\ HasMarker(fn, log[k].before) => log[k].status = "SKIP"
        /\ (~HasMarker(fn, log[k].before) /\ ~WouldMatch(fn, log[k].before)) =>
              log[k].status = "NO_MATCH"

\* Plan-then-apply.  The plan of a pass over ls: for each line a that a
\* branch r takes, the lines of r at index a + 1 (branches that append:
\* AFTER) or at index a (branch 6 of game.js: BEFORE).
Plan(f, ls) ==
    LET taken == [a \in 0..(Len(ls) - 1) |-> Branch(f, ls, a)]
    IN  { [anchor |-> a,
           at |-> IF f = "game" /\ taken[a] = 6 THEN a ELSE a + 1,
           text |-> Insert(f, taken[a])] :
          a \in {b \in 0..(Len(ls) - 1) : taken[b] > 0} }

\* The plan applied to a copy, the highest line index first (of an AFTER at
\* line a and a BEFORE at line a + 1, which share an index, the BEFORE
\* first, so that each stays next to its anchor).
RECURSIVE ApplyDescending(_, _)
ApplyDescending(buf, ops) ==
    IF ops = {} THEN buf
    ELSE LET op == CHOOSE o \in ops : \A q \in ops : q.anchor <= o.anchor
         IN  ApplyDescending(
                 SubSeq(buf, 1, op.at) \o op.text \o SubSeq(buf, op.at + 1, Len(buf)),
                 ops \ {op})

\* C9: the output of the forward scan is the output of plan-then-apply on
\* the original lines, and so is the file written.
C9_PlanThenApply ==
    (ScanComplete \/ Written) =>
        /\ new_lines = ApplyDescending(lines, Plan(fn, lines))
        /\ Written => Last.after = Join(new_lines)

\* A scan has run to its end with an AFTER insertion and a BEFORE insertion
\* planned at the same index.
C9_Witness ==
    /\ ScanComplete
    /\ \E o1, o2 \in Plan(fn, lines) : o1.anchor # o2.anchor /\ o1.at = o2.at

\* C10: the scan subscripts lines only inside the list: i-1 only at i >= 1,
\* i+1 only at i < len(lines)-1, and no call ends in an IndexError.
C10_NeighboursInside ==
    /\ (fn \in Scans /\ pc = "scan" /\ i < Len(lines)) =>
          \A k \in NeighbourReads(fn, lines, i) : k \in 0..(Len(lines) - 1)
    /\ \A k \in 1..Len(log) : log[k].status # "IndexError"

====
